---------------------------- MODULE Spec2Model ----------------------------
(***************************************************************************)
(* Model of the cyclic fortune calculation engine of src/main.py: the ring *)
(* index arithmetic, the five-element relation, the base chart, the        *)
(* hierarchy resolver, the trend generator, the pattern detector and the   *)
(* /api/calculate handler that chains them.                                *)
(*                                                                         *)
(* Labels are romanised, in the order of the source tables:                *)
(*   ZHI       zi chou yin mao chen si wu wei shen you xu hai              *)
(*   elements  water(shui) wood(mu) fire(huo) earth(tu) metal(jin)         *)
(*   relation  sheng_wo (guest produces host), bi_wang (same element),     *)
(*             wo_sheng (host produces guest), wo_ke (host controls        *)
(*             guest), ke_wo (guest controls host), wei_zhi (fallback)     *)
(* The calendar library (borax LunarDate) is outside the repository: each  *)
(* of its answers is a nondeterministic input of the request.              *)
(***************************************************************************)
EXTENDS Integers, Sequences, FiniteSets, TLC

VARIABLES
    req,    \* the UserRequest being served by /api/calculate
    cal,    \* what the calendar library answers while serving req
    resp,   \* the response of /api/calculate to req
    call,   \* arguments of a direct call of one engine function
    ret,    \* the values that call has returned so far
    tables, \* the module-level lookup tables, shared by every request
    workers \* the requests that several workers serve side by side

vars == <<req, cal, resp, call, ret, tables, workers>>

\* Python's None, an exception raised by the calendar library, and a calendar
\* call that the request never makes
None == [none |-> TRUE]
Raise == [raised |-> TRUE]
NotAsked == [asked |-> FALSE]

----------------------------------------------------------------------------
(* Static tables, src/main.py lines 37-165 *)

Static_ZHI ==
    <<"zi", "chou", "yin", "mao", "chen", "si", "wu", "wei", "shen", "you", "xu", "hai">>

Static_STARS_INFO ==
    [z \in {Static_ZHI[i] : i \in 1..Len(Static_ZHI)} |->
        CASE z = "zi"   -> [name |-> "TianGui",   element |-> "water"]
          [] z = "chou" -> [name |-> "TianE",     element |-> "earth"]
          [] z = "yin"  -> [name |-> "TianQuan",  element |-> "wood"]
          [] z = "mao"  -> [name |-> "TianPo",    element |-> "wood"]
          [] z = "chen" -> [name |-> "TianJian",  element |-> "earth"]
          [] z = "si"   -> [name |-> "TianWen",   element |-> "fire"]
          [] z = "wu"   -> [name |-> "TianFu",    element |-> "fire"]
          [] z = "wei"  -> [name |-> "TianYi",    element |-> "earth"]
          [] z = "shen" -> [name |-> "TianGu",    element |-> "metal"]
          [] z = "you"  -> [name |-> "TianRen",   element |-> "metal"]
          [] z = "xu"   -> [name |-> "TianYiArt", element |-> "earth"]
          [] z = "hai"  -> [name |-> "TianShou",  element |-> "water"]]

Static_ASPECTS_ORDER ==
    <<"zong_ming_yun", "xing_xiang", "xing_fu", "shi_ye", "bian_dong", "jian_kang",
      "ai_qing", "ling_dao", "qin_xin", "gen_ji", "peng_you", "qian_cai">>

Static_STAR_MODIFIERS ==
    [s \in {"TianGui", "TianFu", "TianWen", "TianShou"} |-> 30]
    @@ [s \in {"TianQuan", "TianYiArt", "TianYi", "TianJian"} |-> 10]
    @@ [s \in {"TianGu", "TianPo", "TianRen", "TianE"} |-> -20]

Static_RENHE_MODIFIERS ==
    [s \in {"TianGui", "TianFu", "TianWen", "TianShou"} |-> 10]
    @@ [s \in {"TianQuan", "TianYiArt", "TianYi", "TianJian"} |-> 5]
    @@ [s \in {"TianGu", "TianPo", "TianRen", "TianE"} |-> -10]

\* the tables as the module's import leaves them
StaticTables ==
    [ZHI |-> Static_ZHI, STARS_INFO |-> Static_STARS_INFO,
     ASPECTS_ORDER |-> Static_ASPECTS_ORDER, STAR_MODIFIERS |-> Static_STAR_MODIFIERS,
     RENHE_MODIFIERS |-> Static_RENHE_MODIFIERS]

\* the engine reads the tables as they are when it runs
ZHI == tables.ZHI
STARS_INFO == tables.STARS_INFO
ASPECTS_ORDER == tables.ASPECTS_ORDER
STAR_MODIFIERS == tables.STAR_MODIFIERS
RENHE_MODIFIERS == tables.RENHE_MODIFIERS

ZhiSet == {ZHI[i] : i \in 1..Len(ZHI)}

\* ZHI[i] with the source's 0-based index
ZhiAt(i) == ZHI[i + 1]

Elements == {"water", "wood", "fire", "earth", "metal"}

\* the None of a failed PRODUCING.get / CONTROLING.get, compared with element names
NoElement == "None"

\* dict.get(key, default)
Get(dict, key, default) == IF key \in DOMAIN dict THEN dict[key] ELSE default

----------------------------------------------------------------------------
(* Core functions, src/main.py lines 168-179 *)

\* get_zhi_index with the -1 of str.find for a label that is no branch
get_zhi_index_find(zhi_char) ==
    IF \E i \in 1..Len(ZHI) : ZHI[i] = zhi_char
    THEN (CHOOSE i \in 1..Len(ZHI) : ZHI[i] = zhi_char) - 1
    ELSE -1

get_zhi_index(zhi_char) ==
    IF \E i \in 1..Len(ZHI) : ZHI[i] = zhi_char
    THEN (CHOOSE i \in 1..Len(ZHI) : ZHI[i] = zhi_char) - 1
    ELSE 0

\* a remainder that keeps the sign of the dividend, as in C or JavaScript
TruncRem(a, n) == IF a >= 0 THEN a % n ELSE -((-a) % n)

get_next_position_trunc(start_index, steps, direction) ==
    TruncRem(start_index + (steps * direction), 12)

get_next_position(start_index, steps, direction) ==
    (start_index + (steps * direction)) % 12

PRODUCING == [e \in Elements |->
    CASE e = "water" -> "wood" [] e = "wood" -> "fire" [] e = "fire" -> "earth"
      [] e = "earth" -> "metal" [] e = "metal" -> "water"]

CONTROLING == [e \in Elements |->
    CASE e = "water" -> "fire" [] e = "fire" -> "metal" [] e = "metal" -> "wood"
      [] e = "wood" -> "earth" [] e = "earth" -> "water"]

get_element_relation_no_peer(me, target) ==
    IF Get(PRODUCING, target, NoElement) = me THEN [type |-> "sheng_wo", score |-> 80]
    ELSE IF Get(PRODUCING, me, NoElement) = target THEN [type |-> "wo_sheng", score |-> 60]
    ELSE IF Get(CONTROLING, me, NoElement) = target THEN [type |-> "wo_ke", score |-> 35]
    ELSE IF Get(CONTROLING, target, NoElement) = me THEN [type |-> "ke_wo", score |-> 20]
    ELSE [type |-> "wei_zhi", score |-> 60]

get_element_relation_swapped(me, target) ==
    IF Get(PRODUCING, me, NoElement) = target THEN [type |-> "sheng_wo", score |-> 80]
    ELSE IF me = target THEN [type |-> "bi_wang", score |-> 75]
    ELSE IF Get(PRODUCING, target, NoElement) = me THEN [type |-> "wo_sheng", score |-> 60]
    ELSE IF Get(CONTROLING, me, NoElement) = target THEN [type |-> "wo_ke", score |-> 35]
    ELSE IF Get(CONTROLING, target, NoElement) = me THEN [type |-> "ke_wo", score |-> 20]
    ELSE [type |-> "wei_zhi", score |-> 60]

get_element_relation(me, target) ==
    IF Get(PRODUCING, target, NoElement) = me THEN [type |-> "sheng_wo", score |-> 80]
    ELSE IF me = target THEN [type |-> "bi_wang", score |-> 75]
    ELSE IF Get(PRODUCING, me, NoElement) = target THEN [type |-> "wo_sheng", score |-> 60]
    ELSE IF Get(CONTROLING, me, NoElement) = target THEN [type |-> "wo_ke", score |-> 35]
    ELSE IF Get(CONTROLING, target, NoElement) = me THEN [type |-> "ke_wo", score |-> 20]
    ELSE [type |-> "wei_zhi", score |-> 60]

----------------------------------------------------------------------------
(* Target date, src/main.py lines 192-225.  from_solar is the answer of        *)
(* LunarDate.from_solar_date(year, month, day): Raise, or a lunar date        *)
(* [year, month, day, leap].  The display strings are not modelled.           *)

parse_target_date(mode, calendar_type, year, month, day, hour_zhi, from_solar) ==
    IF calendar_type = "solar" /\ from_solar = Raise
    THEN [lunar_year |-> year, lunar_month |-> month, lunar_day |-> day,
          year_zhi |-> ZhiAt((year - 4) % 12), hour_zhi |-> hour_zhi]
    ELSE LET lunar == from_solar
             target_lunar_year == IF calendar_type = "solar" THEN lunar.year ELSE year
             target_lunar_month ==
                 IF calendar_type = "solar"
                 THEN (IF lunar.leap /\ lunar.day > 15 THEN lunar.month + 1 ELSE lunar.month)
                 ELSE month
             target_lunar_day == IF calendar_type = "solar" THEN lunar.day ELSE day
         IN [lunar_year |-> target_lunar_year, lunar_month |-> target_lunar_month,
             lunar_day |-> target_lunar_day,
             year_zhi |-> ZhiAt((target_lunar_year - 4) % 12), hour_zhi |-> hour_zhi]

----------------------------------------------------------------------------
(* class OnePalmSystem, src/main.py lines 227-320 *)

OnePalmSystem(gender, birth_year_zhi, birth_month_num, birth_day_num, birth_hour_zhi) ==
    LET direction == IF gender = 1 THEN 1 ELSE -1
        year_idx == get_zhi_index(birth_year_zhi)
        month_idx == get_next_position(year_idx, birth_month_num - 1, direction)
        day_idx == get_next_position(month_idx, birth_day_num - 1, direction)
        hour_idx == get_next_position(day_idx, get_zhi_index(birth_hour_zhi), direction)
    IN [gender |-> gender, direction |-> direction, year_idx |-> year_idx,
        month_idx |-> month_idx, day_idx |-> day_idx, hour_idx |-> hour_idx]

\* {**STARS_INFO[ZHI[idx]], "zhi": ZHI[idx]}
StarEntry(idx) ==
    [name |-> STARS_INFO[ZhiAt(idx)].name, element |-> STARS_INFO[ZhiAt(idx)].element,
     zhi |-> ZhiAt(idx)]

\* the chain of calculate_hierarchy from its stage count and its four offsets
hierarchy_chain(self, luck_stage, t_year_zhi_idx, month_steps, day_steps, t_hour_idx) ==
    LET start_luck == get_next_position(self.hour_idx, 1, self.direction)
        big_luck_idx == get_next_position(start_luck, luck_stage, self.direction)
        flow_year_idx == get_next_position(big_luck_idx, t_year_zhi_idx, self.direction)
        flow_month_idx == get_next_position(flow_year_idx, month_steps, self.direction)
        flow_day_idx == get_next_position(flow_month_idx, day_steps, self.direction)
        flow_hour_idx == get_next_position(flow_day_idx, t_hour_idx, self.direction)
    IN [big_luck |-> StarEntry(big_luck_idx), year |-> StarEntry(flow_year_idx),
        month |-> StarEntry(flow_month_idx), day |-> StarEntry(flow_day_idx),
        hour |-> StarEntry(flow_hour_idx)]

\* the stage counted as age div 7 instead of (age - 1) div 7
calculate_hierarchy_age_div(self, current_age, target_data, scope) ==
    hierarchy_chain(self, current_age \div 7, get_zhi_index(target_data.year_zhi),
                    target_data.lunar_month - 1, target_data.lunar_day - 1,
                    get_zhi_index(target_data.hour_zhi))

\* the month layer stepped by the target day and the day layer by the target hour
calculate_hierarchy_shifted_units(self, current_age, target_data, scope) ==
    hierarchy_chain(self, (current_age - 1) \div 7, get_zhi_index(target_data.year_zhi),
                    target_data.lunar_day - 1, get_zhi_index(target_data.hour_zhi),
                    target_data.lunar_month - 1)

calculate_hierarchy(self, current_age, target_data, scope) ==
    hierarchy_chain(self, (current_age - 1) \div 7, get_zhi_index(target_data.year_zhi),
                    target_data.lunar_month - 1, target_data.lunar_day - 1,
                    get_zhi_index(target_data.hour_zhi))

----------------------------------------------------------------------------
(* OnePalmSystem.get_base_chart and calculate_special_patterns,                *)
(* src/main.py lines 235-299.  Slogans, poems and descriptions are texts.     *)

get_base_chart(self) ==
    [year |-> StarEntry(self.year_idx), month |-> StarEntry(self.month_idx),
     day |-> StarEntry(self.day_idx), hour |-> StarEntry(self.hour_idx)]

good_stars == {"TianGui", "TianFu", "TianShou", "TianWen", "TianQuan"}
bad_stars == {"TianJian", "TianPo", "TianYi", "TianRen", "TianE", "TianGu"}

\* the pattern appended by one `if` of calculate_special_patterns, or none
PatternIf(condition, name) == IF condition THEN <<name>> ELSE <<>>

\* every repeated-star pattern tested with == 3 instead of >= 3
calculate_special_patterns_exactly_three(self) ==
    LET pillars == <<self.year_idx, self.month_idx, self.day_idx, self.hour_idx>>
        star_of(k) == STARS_INFO[ZhiAt(pillars[k])].name
        star_counts(star) == Cardinality({k \in 1..4 : star_of(k) = star})
    IN PatternIf(\A k \in 1..4 : star_of(k) \in good_stars, "si_zhu_quan_ji")
       \o PatternIf(\A k \in 1..4 : star_of(k) \in bad_stars, "si_zhu_quan_xiong")
       \o PatternIf(star_counts("TianQuan") = 3, "san_quan_zhang_yin")
       \o PatternIf(star_counts("TianGui") = 3, "san_gui_xian_he")
       \o PatternIf(star_counts("TianFu") = 3, "san_fu_ju_fu")
       \o PatternIf(star_counts("TianGu") = 3, "san_gu_tong_ling")
       \o PatternIf(star_counts("TianYi") = 3, "san_yi_ben_bo")
       \o PatternIf(star_counts("TianRen") = 2, "shuang_ren_hua_shan")
       \o PatternIf(star_counts("TianE") = 3, "san_e_fan_ji")

calculate_special_patterns(self) ==
    LET pillars == <<self.year_idx, self.month_idx, self.day_idx, self.hour_idx>>
        star_of(k) == STARS_INFO[ZhiAt(pillars[k])].name
        star_counts(star) == Cardinality({k \in 1..4 : star_of(k) = star})
    IN PatternIf(\A k \in 1..4 : star_of(k) \in good_stars, "si_zhu_quan_ji")
       \o PatternIf(\A k \in 1..4 : star_of(k) \in bad_stars, "si_zhu_quan_xiong")
       \o PatternIf(star_counts("TianQuan") >= 3, "san_quan_zhang_yin")
       \o PatternIf(star_counts("TianGui") >= 3, "san_gui_xian_he")
       \o PatternIf(star_counts("TianFu") >= 3, "san_fu_ju_fu")
       \o PatternIf(star_counts("TianGu") >= 3, "san_gu_tong_ling")
       \o PatternIf(star_counts("TianYi") >= 3, "san_yi_ben_bo")
       \o PatternIf(star_counts("TianRen") = 2, "shuang_ren_hua_shan")
       \o PatternIf(star_counts("TianE") >= 3, "san_e_fan_ji")

----------------------------------------------------------------------------
(* OnePalmSystem.calculate_full_trend, src/main.py lines 322-434.              *)
(* days_probe is the answer of LunarDate(t_year, valid_month, 1).days_in_month *)
(* (Raise, or [days |-> 29 or 30]).  A label is modelled by the value it       *)
(* prints; a tooltip by its guest star, relation type and host star, without   *)
(* the suffix the scope fixes.  trend_response is kept by axis point: what the loop appends to   *)
(* axis_labels, renhe_scores and, per aspect (by its place in ASPECTS_ORDER,   *)
(* 1 is zong_ming_yun), to datasets, adjustments and tooltips in one pass is   *)
(* one row of points.                                                          *)

\* the year axis built with range(-6, 6): twelve points, the last year missing
loop_items_short(scope, target_data, days_probe) ==
    CASE scope = "year" ->
           [k \in 1..12 |-> [offset |-> k - 7, type |-> "year",
                             val |-> target_data.lunar_year + (k - 7)]]
      [] scope = "month" -> [k \in 1..12 |-> [val |-> k, type |-> "month"]]
      [] scope = "day" ->
           LET days_in_month == IF days_probe = Raise THEN 30 ELSE days_probe.days
           IN [k \in 1..days_in_month |-> [val |-> k, type |-> "day"]]
      [] scope = "hour" -> [k \in 1..Len(ZHI) |-> [val |-> ZHI[k], type |-> "hour"]]
      [] OTHER -> <<>>

loop_items(scope, target_data, days_probe) ==
    CASE scope = "year" ->
           [k \in 1..13 |-> [offset |-> k - 7, type |-> "year",
                             val |-> target_data.lunar_year + (k - 7)]]
      [] scope = "month" -> [k \in 1..12 |-> [val |-> k, type |-> "month"]]
      [] scope = "day" ->
           LET days_in_month == IF days_probe = Raise THEN 30 ELSE days_probe.days
           IN [k \in 1..days_in_month |-> [val |-> k, type |-> "day"]]
      [] scope = "hour" -> [k \in 1..Len(ZHI) |-> [val |-> ZHI[k], type |-> "hour"]]
      [] OTHER -> <<>>

target_val_match(scope, target_data) ==
    CASE scope = "year" -> 6
      [] scope = "month" -> target_data.lunar_month - 1
      [] scope = "day" -> target_data.lunar_day - 1
      [] scope = "hour" -> get_zhi_index(target_data.hour_zhi)
      [] OTHER -> -1

\* dynamic_idx counting the months and days from 0 steps at value 0, not at value 1
dynamic_idx_unshifted(hierarchy, scope, point, system_obj) ==
    LET current_fy_idx == get_zhi_index(hierarchy.year.zhi)
        current_fm_idx == get_zhi_index(hierarchy.month.zhi)
        current_fd_idx == get_zhi_index(hierarchy.day.zhi)
    IN CASE scope = "year" ->
              get_next_position(current_fy_idx, point.offset, system_obj.direction)
         [] scope = "month" ->
              get_next_position(current_fy_idx, point.val, system_obj.direction)
         [] scope = "day" ->
              get_next_position(current_fm_idx, point.val, system_obj.direction)
         [] scope = "hour" ->
              get_next_position(current_fd_idx, get_zhi_index(point.val), system_obj.direction)

\* the ring position of one axis point, lines 386-396
dynamic_idx(hierarchy, scope, point, system_obj) ==
    LET current_fy_idx == get_zhi_index(hierarchy.year.zhi)
        current_fm_idx == get_zhi_index(hierarchy.month.zhi)
        current_fd_idx == get_zhi_index(hierarchy.day.zhi)
    IN CASE scope = "year" ->
              get_next_position(current_fy_idx, point.offset, system_obj.direction)
         [] scope = "month" ->
              get_next_position(current_fy_idx, point.val - 1, system_obj.direction)
         [] scope = "day" ->
              get_next_position(current_fm_idx, point.val - 1, system_obj.direction)
         [] scope = "hour" ->
              get_next_position(current_fd_idx, get_zhi_index(point.val), system_obj.direction)

\* the layer one level above the scope, lines 413-418
upper_level(hierarchy, scope) ==
    CASE scope = "year" -> [star |-> hierarchy.big_luck, label |-> "(da_yun)"]
      [] scope = "month" -> [star |-> hierarchy.year, label |-> "(liu_nian)"]
      [] scope = "day" -> [star |-> hierarchy.month, label |-> "(liu_yue)"]
      [] scope = "hour" -> [star |-> hierarchy.day, label |-> "(liu_ri)"]
      [] OTHER -> [star |-> None, label |-> ""]

\* host and guest of one aspect at one point, lines 405-424
substituted(upper, time_star_info) ==
    [host_el |-> upper.star.element, host_name |-> upper.star.name,
     guest_el |-> time_star_info.element, guest_name |-> time_star_info.name]

\* the plain rule of lines 407-410, which slot 0 would get without lines 412-424
host_guest_plain(hierarchy, scope, time_star_info, name, aspect_star_info) ==
    [host_el |-> time_star_info.element, host_name |-> time_star_info.name,
     guest_el |-> aspect_star_info.element, guest_name |-> aspect_star_info.name]

\* slot 0 left to the plain rule, like the other eleven
host_guest_no_substitution(hierarchy, scope, time_star_info, name, aspect_star_info) ==
    host_guest_plain(hierarchy, scope, time_star_info, name, aspect_star_info)

host_guest(hierarchy, scope, time_star_info, name, aspect_star_info) ==
    IF name = "zong_ming_yun" /\ upper_level(hierarchy, scope).star # None
    THEN substituted(upper_level(hierarchy, scope), time_star_info)
    ELSE host_guest_plain(hierarchy, scope, time_star_info, name, aspect_star_info)

\* what lines 426-432 append for one aspect: the score to datasets, the adjustment to
\* adjustments, and guest, type and host to the tooltip
appended(rel, hg, grade_score, root_score) ==
    [score |-> rel.score, adjustment |-> grade_score + root_score,
     guest |-> hg.guest_name, type |-> rel.type, host |-> hg.host_name]

scored(hg, grade_score, root_score) ==
    appended(get_element_relation(hg.host_el, hg.guest_el), hg, grade_score, root_score)

\* aspect_at without the bonus of a branch that is one of the origin pillars
aspect_at_unrooted(hierarchy, scope, system_obj, time_star_info, i, curr_idx) ==
    scored(host_guest(hierarchy, scope, time_star_info, ASPECTS_ORDER[i + 1],
                      STARS_INFO[ZhiAt(curr_idx)]),
           Get(STAR_MODIFIERS, STARS_INFO[ZhiAt(curr_idx)].name, 0), 0)

\* one aspect at one point, lines 404-432
aspect_at(hierarchy, scope, system_obj, time_star_info, i, curr_idx) ==
    scored(host_guest(hierarchy, scope, time_star_info, ASPECTS_ORDER[i + 1],
                      STARS_INFO[ZhiAt(curr_idx)]),
           Get(STAR_MODIFIERS, STARS_INFO[ZhiAt(curr_idx)].name, 0),
           IF curr_idx \in {system_obj.year_idx, system_obj.month_idx,
                            system_obj.day_idx, system_obj.hour_idx} THEN 10 ELSE 0)

\* one pass of the loop over the axis points, lines 383-432
point_row(hierarchy, scope, system_obj, point, time_star_info) ==
    [label |-> point.val,
     renhe |-> [score |-> Get(RENHE_MODIFIERS, time_star_info.name, 0),
                star |-> time_star_info.name],
     aspects |-> [k \in 1..Len(ASPECTS_ORDER) |->
                    aspect_at(hierarchy, scope, system_obj, time_star_info, k - 1,
                              (system_obj.hour_idx + (k - 1)) % 12)]]

point_at(hierarchy, scope, system_obj, point) ==
    point_row(hierarchy, scope, system_obj, point,
              STARS_INFO[ZhiAt(dynamic_idx(hierarchy, scope, point, system_obj))])

trend_rows(hierarchy, scope, system_obj, items) ==
    [p \in 1..Len(items) |-> point_at(hierarchy, scope, system_obj, items[p])]

calculate_full_trend(self, hierarchy, scope, lunar_data, target_data, system_obj, days_probe) ==
    [points |-> trend_rows(hierarchy, scope, system_obj,
                           loop_items(scope, target_data, days_probe)),
     target_index |-> target_val_match(scope, target_data)]

\* the lists of trend_response, read off the rows
axis_labels(trend) == [p \in DOMAIN trend.points |-> trend.points[p].label]
renhe_scores(trend) == [p \in DOMAIN trend.points |-> trend.points[p].renhe]
datasets(trend, k) == [p \in DOMAIN trend.points |-> trend.points[p].aspects[k].score]
adjustments(trend, k) == [p \in DOMAIN trend.points |-> trend.points[p].aspects[k].adjustment]
tooltips(trend, k) ==
    [p \in DOMAIN trend.points |->
        [label |-> trend.points[p].label, guest |-> trend.points[p].aspects[k].guest,
         type |-> trend.points[p].aspects[k].type, host |-> trend.points[p].aspects[k].host]]

----------------------------------------------------------------------------
(* solar_to_one_palm_lunar, src/main.py lines 181-190, and the handler of      *)
(* /api/calculate, lines 479-530.  from_solar is the calendar's answer for the *)
(* birth date.  lunar_str, target_display, dual_info and ai_prompt are texts.  *)

solar_to_one_palm_lunar(solar_date_str, from_solar) ==
    IF solar_date_str = "" \/ from_solar = Raise THEN None
    ELSE LET lunar == from_solar
             final_month == IF lunar.leap /\ lunar.day > 15 THEN lunar.month + 1 ELSE lunar.month
         IN [year_zhi |-> ZhiAt((lunar.year - 4) % 12), month |-> final_month,
             day |-> lunar.day, lunar_year_num |-> lunar.year]

\* the aspects list anchored at the layer of the scope, not at the year layer
aspects_list_scope_anchor(hierarchy, target_scope) ==
    LET host_star == CASE target_scope = "month" -> hierarchy.month
                       [] target_scope = "day" -> hierarchy.day
                       [] target_scope = "hour" -> hierarchy.hour
                       [] OTHER -> hierarchy.year
        base_idx == get_zhi_index(host_star.zhi)
        host_el(name) ==
            IF name = "zong_ming_yun" /\ target_scope \in {"year", "month", "day", "hour"}
            THEN upper_level(hierarchy, target_scope).star.element
            ELSE host_star.element
    IN [k \in 1..Len(ASPECTS_ORDER) |->
          LET curr_idx == (base_idx + (k - 1)) % 12
              guest_star_info == STARS_INFO[ZhiAt(curr_idx)]
              rel == get_element_relation(host_el(ASPECTS_ORDER[k]), guest_star_info.element)
          IN [name |-> ASPECTS_ORDER[k], star |-> guest_star_info.name,
              element |-> guest_star_info.element, zhi |-> ZhiAt(curr_idx),
              relation |-> rel.type, is_alert |-> rel.type \in {"wo_ke", "ke_wo"}]]

\* the static aspects list, lines 491-509
aspects_list(hierarchy, target_scope) ==
    LET base_idx == get_zhi_index(hierarchy.year.zhi)
        host_star == CASE target_scope = "month" -> hierarchy.month
                       [] target_scope = "day" -> hierarchy.day
                       [] target_scope = "hour" -> hierarchy.hour
                       [] OTHER -> hierarchy.year
        host_el(name) ==
            IF name = "zong_ming_yun" /\ target_scope \in {"year", "month", "day", "hour"}
            THEN upper_level(hierarchy, target_scope).star.element
            ELSE host_star.element
    IN [k \in 1..Len(ASPECTS_ORDER) |->
          LET curr_idx == (base_idx + (k - 1)) % 12
              guest_star_info == STARS_INFO[ZhiAt(curr_idx)]
              rel == get_element_relation(host_el(ASPECTS_ORDER[k]), guest_star_info.element)
          IN [name |-> ASPECTS_ORDER[k], star |-> guest_star_info.name,
              element |-> guest_star_info.element, zhi |-> ZhiAt(curr_idx),
              relation |-> rel.type, is_alert |-> rel.type \in {"wo_ke", "ke_wo"}]]

calculate(r, c) ==
    LET lunar_data == solar_to_one_palm_lunar(r.solar_date, c.birth)
    IN IF lunar_data = None THEN [status |-> 400]
       ELSE LET target_data == parse_target_date(r.target_scope, r.target_calendar,
                                   r.target_year, r.target_month, r.target_day,
                                   r.target_hour, c.target)
                age == target_data.lunar_year - lunar_data.lunar_year_num + 1
                system == OnePalmSystem(r.gender, lunar_data.year_zhi, lunar_data.month,
                                        lunar_data.day, r.hour)
                hierarchy == calculate_hierarchy(system, age, target_data, r.target_scope)
            IN [status |-> 200, age |-> age, base_chart |-> get_base_chart(system),
                hierarchy |-> hierarchy,
                aspects |-> aspects_list(hierarchy, r.target_scope),
                trend_data |-> calculate_full_trend(system, hierarchy, r.target_scope,
                                   lunar_data, target_data, system, c.days_in_month),
                special_patterns |-> calculate_special_patterns(system)]

\* STARS_INFO with the entries of the hierarchy's layers extended in place by their
\* 'zhi' key: what lines 305-319 would leave without the {** } copies
tables_after_aliasing(t, r, c) ==
    IF calculate(r, c).status # 200 THEN t
    ELSE [t EXCEPT !.STARS_INFO =
            [z \in DOMAIN @ |->
                IF \E layer \in DOMAIN calculate(r, c).hierarchy :
                      calculate(r, c).hierarchy[layer].zhi = z
                THEN [name |-> @[z].name, element |-> @[z].element, zhi |-> z]
                ELSE @[z]]]

\* the module-level tables after calculate has served a request: neither the handler
\* nor a function it calls assigns to a table or to an entry of one (the star entries
\* it returns are copies, lines 305-319 and 238-246)
tables_after_calculate(t, r, c) == t

----------------------------------------------------------------------------
(* Direct calls of get_next_position: a result, then the way back *)

MaxSteps == 14

Directions == {1, -1}

NoRequest == [scope |-> "none"]
NoCall == [fn |-> "none"]

\* the workers that serve requests side by side, all idle
Workers == {1, 2}
NoWorkers == [w \in Workers |-> [req |-> NoRequest, cal |-> NotAsked, resp |-> None]]

InitRing ==
    /\ tables = StaticTables /\ workers = NoWorkers
    /\ req = NoRequest /\ cal = NotAsked /\ resp = None
    /\ \E start \in 0..11, steps \in (-MaxSteps)..MaxSteps, direction \in Directions :
          call = [fn |-> "get_next_position", start |-> start, steps |-> steps,
                  direction |-> direction]
    /\ ret = <<>>

CallNextPosition ==
    /\ call.fn = "get_next_position" /\ Len(ret) = 0
    /\ ret' = <<get_next_position(call.start, call.steps, call.direction)>>
    /\ UNCHANGED <<req, cal, resp, call, tables, workers>>

CallNextPositionBack ==
    /\ call.fn = "get_next_position" /\ Len(ret) = 1
    /\ ret' = Append(ret, get_next_position(ret[1], -call.steps, call.direction))
    /\ UNCHANGED <<req, cal, resp, call, tables, workers>>

NextRing == CallNextPosition \/ CallNextPositionBack

SpecRing == InitRing /\ [][NextRing]_vars

\* C2: advance(start, steps, direction) is (start + steps*direction) mod 12, lies in
\* 0..11 for every integer steps, and advancing the result by -steps gives start back.
C2_AdvanceRangeAndInverse ==
    /\ Len(ret) >= 1 =>
          /\ ret[1] \in 0..11
          /\ \E k \in (-MaxSteps)..MaxSteps :
                ret[1] + 12 * k = call.start + call.steps * call.direction
    /\ Len(ret) >= 2 => ret[2] = call.start

C2_Witness ==
    /\ Len(ret) = 2 /\ call.steps = -13 /\ call.direction = 1 /\ call.start = 3
    /\ ret[1] = 2 /\ ret[2] = 3

----------------------------------------------------------------------------
(* Direct calls of get_element_relation on the elements of two branches *)

InitRelation ==
    /\ tables = StaticTables /\ workers = NoWorkers
    /\ req = NoRequest /\ cal = NotAsked /\ resp = None
    /\ \E host \in ZhiSet, guest \in ZhiSet :
          call = [fn |-> "get_element_relation", me |-> STARS_INFO[host].element,
                  target |-> STARS_INFO[guest].element, host |-> host, guest |-> guest]
    /\ ret = <<>>

CallElementRelation ==
    /\ call.fn = "get_element_relation" /\ Len(ret) = 0
    /\ ret' = <<get_element_relation(call.me, call.target)>>
    /\ UNCHANGED <<req, cal, resp, call, tables, workers>>

CallElementRelationReversed ==
    /\ call.fn = "get_element_relation" /\ Len(ret) = 1
    /\ ret' = Append(ret, get_element_relation(call.target, call.me))
    /\ UNCHANGED <<req, cal, resp, call, tables, workers>>

NextRelation == CallElementRelation \/ CallElementRelationReversed

SpecRelation == InitRelation /\ [][NextRelation]_vars

\* the five conditions of the relation, stated on the two cycles
GuestProducesHost(h, g) == PRODUCING[g] = h
HostProducesGuest(h, g) == PRODUCING[h] = g
HostControlsGuest(h, g) == CONTROLING[h] = g
GuestControlsHost(h, g) == CONTROLING[g] = h

ConditionsHolding(h, g) ==
    {c \in 1..5 :
        \/ c = 1 /\ GuestProducesHost(h, g)
        \/ c = 2 /\ h = g
        \/ c = 3 /\ HostProducesGuest(h, g)
        \/ c = 4 /\ HostControlsGuest(h, g)
        \/ c = 5 /\ GuestControlsHost(h, g)}

Ladder == <<[type |-> "sheng_wo", score |-> 80], [type |-> "bi_wang", score |-> 75],
            [type |-> "wo_sheng", score |-> 60], [type |-> "wo_ke", score |-> 35],
            [type |-> "ke_wo", score |-> 20]>>

\* C3: for every ordered pair (host, guest) exactly one of the five conditions holds,
\* the relation returned is the ladder entry of that condition, and the
\* indeterminate/60 fallback is never returned.
C3_RelationLadder ==
    Len(ret) >= 1 =>
        /\ Cardinality(ConditionsHolding(call.me, call.target)) = 1
        /\ \A c \in ConditionsHolding(call.me, call.target) : ret[1] = Ladder[c]
        /\ ret[1].type # "wei_zhi"

C3_Witness ==
    /\ Len(ret) >= 1 /\ call.me = "water" /\ call.target = "earth"
    /\ ret[1] = [type |-> "ke_wo", score |-> 20]

\* C4: relation(e, e) is peer/75, and the relation is not symmetric: for two distinct
\* elements the category of (a, b) differs from the category of (b, a).
C4_PeerAndAsymmetry ==
    /\ (Len(ret) >= 1 /\ call.me = call.target) => ret[1] = [type |-> "bi_wang", score |-> 75]
    /\ (Len(ret) >= 2 /\ call.me # call.target) => ret[1] # ret[2]

C4_Witness ==
    /\ Len(ret) = 2 /\ call.me = "wood" /\ call.target = "fire"
    /\ ret[1].type = "wo_sheng" /\ ret[2].type = "sheng_wo"

----------------------------------------------------------------------------
(* Direct calls of calculate_hierarchy on a chart and a parsed lunar target, *)
(* then on a second target that differs in the lunar day or in the hour      *)

MaxAge == 15
MaxHierYear == 2031

HierYears == 2020..MaxHierYear

HierMonths == {1, 7, 13}
HierDays == {1, 2, 30}
HierHours == {"zi", "si", "unknown"}
Genders == {1, 0}
Scopes == {"year", "month", "day", "hour"}

InitHierarchy ==
    /\ tables = StaticTables /\ workers = NoWorkers
    /\ req = NoRequest /\ cal = NotAsked /\ resp = None
    /\ \E gender \in Genders, birth_year_zhi \in ZhiSet, current_age \in 1..MaxAge,
          year \in HierYears, month \in HierMonths, day \in HierDays,
          hour_zhi \in HierHours :
          call = [fn |-> "calculate_hierarchy",
                  self |-> OnePalmSystem(gender, birth_year_zhi, 1, 1, "zi"),
                  current_age |-> current_age,
                  target_data |-> parse_target_date("year", "lunar", year, month, day,
                                                    hour_zhi, NotAsked),
                  second_target |-> None]
    /\ ret = <<>>

CallHierarchy ==
    /\ call.fn = "calculate_hierarchy" /\ Len(ret) = 0
    /\ ret' = <<calculate_hierarchy(call.self, call.current_age, call.target_data, "year")>>
    /\ UNCHANGED <<req, cal, resp, call, tables, workers>>

CallHierarchyOtherDay ==
    /\ call.fn = "calculate_hierarchy" /\ Len(ret) = 1
    /\ \E day \in HierDays \ {call.target_data.lunar_day} :
          LET second == [call.target_data EXCEPT !.lunar_day = day]
          IN /\ call' = [call EXCEPT !.second_target = second]
             /\ ret' = Append(ret, calculate_hierarchy(call.self, call.current_age, second, "year"))
    /\ UNCHANGED <<req, cal, resp, tables, workers>>

CallHierarchyOtherHour ==
    /\ call.fn = "calculate_hierarchy" /\ Len(ret) = 1
    /\ \E hour_zhi \in HierHours \ {call.target_data.hour_zhi} :
          LET second == [call.target_data EXCEPT !.hour_zhi = hour_zhi]
          IN /\ call' = [call EXCEPT !.second_target = second]
             /\ ret' = Append(ret, calculate_hierarchy(call.self, call.current_age, second, "year"))
    /\ UNCHANGED <<req, cal, resp, tables, workers>>

NextHierarchy == CallHierarchy \/ CallHierarchyOtherDay \/ CallHierarchyOtherHour

SpecHierarchy == InitHierarchy /\ [][NextHierarchy]_vars

\* the spec's advance(start, steps, direction)
advance(start, steps, direction) == (start + steps * direction) % 12

\* ring position of a hierarchy layer
LayerIdx(hierarchy, layer) == get_zhi_index(hierarchy[layer].zhi)

\* the hour branch index the spec's chain uses: 0 for a label outside the table
HourBranch(label) == IF label \in ZhiSet THEN (CHOOSE i \in 0..11 : ZhiAt(i) = label) ELSE 0

\* C1: for origin-hour position h, direction d, age >= 1 and a target with lunar year
\* ly, month m, day dd and hour branch hh, calculate_hierarchy returns
\* decadeStage = advance(advance(h,1,d), (age-1) div 7, d), year = advance(decadeStage, y, d)
\* with y = (ly - 4) mod 12, month = advance(year, m-1, d), day = advance(month, dd-1, d),
\* hour = advance(day, hh, d); h=3, d=+1, age=8 gives decadeStage 5.
C1_HierarchyChain ==
    Len(ret) >= 1 =>
        LET h == call.self.hour_idx
            d == call.self.direction
            t == call.target_data
            decadeStage == advance(advance(h, 1, d), (call.current_age - 1) \div 7, d)
            year == advance(decadeStage, (t.lunar_year - 4) % 12, d)
            month == advance(year, t.lunar_month - 1, d)
            day == advance(month, t.lunar_day - 1, d)
            hour == advance(day, HourBranch(t.hour_zhi), d)
        IN /\ LayerIdx(ret[1], "big_luck") = decadeStage
           /\ LayerIdx(ret[1], "year") = year
           /\ LayerIdx(ret[1], "month") = month
           /\ LayerIdx(ret[1], "day") = day
           /\ LayerIdx(ret[1], "hour") = hour
           /\ \A layer \in DOMAIN ret[1] : ret[1][layer] = StarEntry(LayerIdx(ret[1], layer))
           /\ (h = 3 /\ d = 1 /\ call.current_age = 8) => decadeStage = 5

C1_Witness ==
    /\ Len(ret) = 1 /\ call.self.hour_idx = 3 /\ call.self.direction = 1
    /\ call.current_age = 8 /\ LayerIdx(ret[1], "big_luck") = 5
    /\ call.target_data.lunar_month = 7 /\ call.target_data.lunar_day = 30

\* C5: two targets that differ only in the lunar day give the same decadeStage, year
\* and month layers; two targets that differ only in the hour branch give the same
\* decadeStage, year, month and day layers.
C5_LaterUnitsLeaveEarlierLayers ==
    Len(ret) >= 2 =>
        /\ ret[2].big_luck = ret[1].big_luck
        /\ ret[2].year = ret[1].year
        /\ ret[2].month = ret[1].month
        /\ call.second_target.lunar_day = call.target_data.lunar_day => ret[2].day = ret[1].day

C5_Witness ==
    /\ Len(ret) = 2
    /\ call.second_target.lunar_day # call.target_data.lunar_day
    /\ call.second_target.hour_zhi = call.target_data.hour_zhi
    /\ ret[2].month = ret[1].month
    /\ ret[2].day # ret[1].day /\ ret[2].hour # ret[1].hour

----------------------------------------------------------------------------
(* Requests to /api/calculate.  A request arrives with the answers the       *)
(* calendar library will give while it is served; the handler has no await   *)
(* and runs to its response in one step; the response is sent and the server *)
(* waits for the next request.                                               *)

MaxBirthYear == 1995
MaxTargetYear == 1995

\* lunar years of birth, one per branch from the zi year 1984 on, and target lunar
\* years, the first of them before the last birth year
BirthYears == 1984..MaxBirthYear
TargetYears == 1994..MaxTargetYear

\* lunar dates the calendar answers for a solar date
CalendarAnswers ==
    {[month |-> 1, day |-> 1, leap |-> FALSE], [month |-> 6, day |-> 16, leap |-> TRUE]}

BirthHours == {"zi"}
TargetHours == {"hai", "unknown"}
Calendars == {"solar", "lunar"}

\* the target month and day of a request: a lunar date is passed on as it is
TargetDates(target_calendar) ==
    IF target_calendar = "solar"
    THEN {[month |-> 1, day |-> 1], [month |-> 13, day |-> 1]}
    ELSE {[month |-> 1, day |-> 1], [month |-> 1, day |-> 30], [month |-> 13, day |-> 1]}

\* LunarDate.from_solar_date: it raises on a date that does not exist or that lies
\* outside its tables, and answers a lunar date otherwise
FromSolarDate(year, month, day) ==
    IF month \notin 1..12 THEN {Raise}
    ELSE {Raise} \cup {[year |-> year, month |-> a.month, day |-> a.day, leap |-> a.leap] :
                         a \in CalendarAnswers}

Init ==
    /\ tables = StaticTables /\ workers = NoWorkers
    /\ req = NoRequest /\ cal = NotAsked /\ resp = None
    /\ call = NoCall /\ ret = <<>>

Receive ==
    /\ req = NoRequest
    /\ \E gender \in Genders, hour \in BirthHours, target_calendar \in Calendars,
          target_scope \in Scopes, target_year \in TargetYears,
          target_hour \in TargetHours, birth_year \in BirthYears :
          \E target_date \in TargetDates(target_calendar) :
          \E birth \in FromSolarDate(birth_year, 6, 15) :
          \E target \in IF birth = Raise \/ target_calendar # "solar" THEN {NotAsked}
                        ELSE FromSolarDate(target_year, target_date.month, target_date.day) :
          \E days_in_month \in IF birth = Raise \/ target_scope # "day" THEN {NotAsked}
                               ELSE {Raise, [days |-> 29], [days |-> 30]} :
             /\ req' = [gender |-> gender, solar_date |-> "birth", hour |-> hour,
                        target_calendar |-> target_calendar, target_scope |-> target_scope,
                        target_year |-> target_year, target_month |-> target_date.month,
                        target_day |-> target_date.day, target_hour |-> target_hour]
             /\ cal' = [birth |-> birth, target |-> target, days_in_month |-> days_in_month]
    /\ UNCHANGED <<resp, call, ret, tables, workers>>

Calculate ==
    /\ req # NoRequest /\ resp = None
    /\ resp' = calculate(req, cal)
    /\ tables' = tables_after_calculate(tables, req, cal)
    /\ UNCHANGED <<req, cal, call, ret, workers>>

Reply ==
    /\ resp # None
    /\ req' = NoRequest /\ cal' = NotAsked /\ resp' = None
    /\ UNCHANGED <<call, ret, tables, workers>>

Next == Receive \/ Calculate \/ Reply

Spec == Init /\ [][Next]_vars

----------------------------------------------------------------------------
(* Several requests served side by side, src/main.py lines 478-530.  The     *)
(* handler is an async function without an await: once it runs it runs to    *)
(* its return, so that requests interleave between handlers, never inside    *)
(* one.  All handlers read the same module-level tables.                     *)

WorkerBirthHours == {"zi", "unknown"}
WorkerTargetHours == {"zi", "unknown", "hai"}

\* the requests the workers receive, each with the calendar's answers for it
Jobs ==
    {[req |-> [gender |-> gender, solar_date |-> "birth", hour |-> hour,
               target_calendar |-> "lunar", target_scope |-> target_scope,
               target_year |-> MaxTargetYear, target_month |-> 6, target_day |-> 15,
               target_hour |-> target_hour],
      cal |-> [birth |-> [year |-> MaxBirthYear, month |-> 6, day |-> 16, leap |-> TRUE],
               target |-> NotAsked,
               days_in_month |-> IF target_scope = "day" THEN [days |-> 30] ELSE NotAsked]] :
        gender \in Genders, hour \in WorkerBirthHours, target_scope \in Scopes,
        target_hour \in WorkerTargetHours}

InitWorkers ==
    /\ tables = StaticTables /\ workers = NoWorkers
    /\ req = NoRequest /\ cal = NotAsked /\ resp = None
    /\ call = NoCall /\ ret = <<>>

ReceiveAt(w) ==
    /\ workers[w].req = NoRequest
    /\ \E job \in Jobs :
          workers' = [workers EXCEPT ![w] = [req |-> job.req, cal |-> job.cal, resp |-> None]]
    /\ UNCHANGED <<req, cal, resp, call, ret, tables>>

CalculateAt(w) ==
    /\ workers[w].req # NoRequest /\ workers[w].resp = None
    /\ workers' = [workers EXCEPT ![w].resp = calculate(workers[w].req, workers[w].cal)]
    /\ tables' = tables_after_calculate(tables, workers[w].req, workers[w].cal)
    /\ UNCHANGED <<req, cal, resp, call, ret>>

ReplyAt(w) ==
    /\ workers[w].resp # None
    /\ workers' = [workers EXCEPT ![w] = [req |-> NoRequest, cal |-> NotAsked, resp |-> None]]
    /\ UNCHANGED <<req, cal, resp, call, ret, tables>>

NextWorkers == \E w \in Workers : ReceiveAt(w) \/ CalculateAt(w) \/ ReplyAt(w)

SpecWorkers == InitWorkers /\ [][NextWorkers]_vars

----------------------------------------------------------------------------
(* Properties of the response of /api/calculate *)

Answered == resp # None /\ resp.status = 200

\* the relation of the spec: the ladder entry of the first condition that holds
relation(host, guest) ==
    Ladder[CHOOSE c \in ConditionsHolding(host, guest) :
              \A other \in ConditionsHolding(host, guest) : c <= other]

StarElement(star) == STARS_INFO[CHOOSE z \in ZhiSet : STARS_INFO[z].name = star].element

ParentLayer(scope) ==
    CASE scope = "year" -> "big_luck" [] scope = "month" -> "year"
      [] scope = "day" -> "month" [] scope = "hour" -> "day"

AxisLength == Len(resp.trend_data.points)

\* C6: the axis has exactly 13 points for scope=year, 12 for month, 12 for hour, and 29
\* or 30 for day: the day count the calendar gives for the target lunar month when the
\* probe answers; no other length occurs.
C6_AxisLength ==
    Answered =>
        /\ req.target_scope = "year" => AxisLength = 13
        /\ req.target_scope = "month" => AxisLength = 12
        /\ req.target_scope = "hour" => AxisLength = 12
        /\ req.target_scope = "day" =>
              /\ AxisLength \in {29, 30}
              /\ cal.days_in_month # Raise => AxisLength = cal.days_in_month.days
        /\ Len(axis_labels(resp.trend_data)) = AxisLength
        /\ Len(renhe_scores(resp.trend_data)) = AxisLength
        /\ \A k \in 1..Len(ASPECTS_ORDER) : Len(datasets(resp.trend_data, k)) = AxisLength

C6_Witness ==
    /\ Answered /\ req.target_scope = "day" /\ cal.days_in_month = [days |-> 29]
    /\ AxisLength = 29

\* C7: in every result, 0 <= target_index < number of axis points, and the time-layer
\* of the axis point at target_index is the hierarchy's layer of the scope.
C7_TargetIndexOnAxis ==
    Answered =>
        /\ 0 <= resp.trend_data.target_index
        /\ resp.trend_data.target_index < AxisLength
        /\ resp.trend_data.points[resp.trend_data.target_index + 1].renhe.star
              = resp.hierarchy[req.target_scope].name

\* C8: at every axis point, slot 0 is scored as relation(host = element of the parent
\* layer of the scope, guest = element of the point's time-layer), and each of slots
\* 1..11 as relation(host = element of the point's time-layer, guest = element of
\* branch (originHour + i) mod 12).
C8_AggregateSubstitution ==
    Answered =>
        \A p \in 1..AxisLength :
            LET row == resp.trend_data.points[p]
                time_el == StarElement(row.renhe.star)
                parent_el == resp.hierarchy[ParentLayer(req.target_scope)].element
                origin_hour == get_zhi_index(resp.base_chart.hour.zhi)
                aspect_el(i) == STARS_INFO[ZhiAt((origin_hour + i) % 12)].element
            IN /\ row.aspects[1].score = relation(parent_el, time_el).score
               /\ row.aspects[1].type = relation(parent_el, time_el).type
               /\ \A i \in 1..11 :
                     /\ row.aspects[i + 1].score = relation(time_el, aspect_el(i)).score
                     /\ row.aspects[i + 1].type = relation(time_el, aspect_el(i)).type

\* an input where the substitution changes the category of slot 0: the plain rule
\* gives host-strains, the substituted rule gives nourishes-host
C8_Witness ==
    /\ Answered
    /\ \E p \in 1..AxisLength :
          LET row == resp.trend_data.points[p]
              origin_hour == get_zhi_index(resp.base_chart.hour.zhi)
          IN /\ row.aspects[1].type = "sheng_wo"
             /\ relation(StarElement(row.renhe.star),
                         STARS_INFO[ZhiAt(origin_hour)].element).type = "wo_ke"

\* the pillars of the chart all carry the star
FourPillarsCarry(star) ==
    \A pillar \in {"year", "month", "day", "hour"} : resp.base_chart[pillar].name = star

PatternSet == {resp.special_patterns[k] : k \in 1..Len(resp.special_patterns)}

\* the three-or-more pattern of a star, for the stars that have one
ThreeOrMore == [s \in {"TianQuan", "TianGui", "TianFu", "TianGu", "TianYi", "TianE"} |->
    CASE s = "TianQuan" -> "san_quan_zhang_yin" [] s = "TianGui" -> "san_gui_xian_he"
      [] s = "TianFu" -> "san_fu_ju_fu" [] s = "TianGu" -> "san_gu_tong_ling"
      [] s = "TianYi" -> "san_yi_ben_bo" [] s = "TianE" -> "san_e_fan_ji"]

\* C9 as stated: for every star of the detector's favorable set, four pillars that all
\* carry it give both the three-or-more pattern of that star and the all-favorable
\* pattern.
C9_EveryFavorableStarBoth ==
    Answered =>
        \A star \in good_stars :
            FourPillarsCarry(star) =>
                /\ "si_zhu_quan_ji" \in PatternSet
                /\ star \in DOMAIN ThreeOrMore /\ ThreeOrMore[star] \in PatternSet

\* C9 amended: for the favorable stars that have a three-or-more pattern (TianQuan,
\* TianGui, TianFu), four pillars that all carry the star give both that pattern and
\* the all-favorable pattern; for TianShou and TianWen, which have none, the result is
\* the all-favorable pattern alone.
C9_FavorableStarsWithPattern ==
    Answered =>
        \A star \in good_stars :
            FourPillarsCarry(star) =>
                IF star \in DOMAIN ThreeOrMore
                THEN PatternSet = {"si_zhu_quan_ji", ThreeOrMore[star]}
                ELSE PatternSet = {"si_zhu_quan_ji"}

C9_Witness ==
    /\ Answered /\ FourPillarsCarry("TianGui")
    /\ resp.special_patterns = <<"si_zhu_quan_ji", "san_gui_xian_he">>

\* C10: a decade stage is computed only for age >= 1: a request whose age is below 1
\* is never answered with a hierarchy.
C10_NoStageBelowAgeOne ==
    Answered => resp.age >= 1

\* a scope=day request is answered although the probe of the day count raised
DayProbeRaised == Answered /\ req.target_scope = "day" /\ cal.days_in_month = Raise

\* C11: for scope=day, when the probe of the day count raises, the trend generator
\* falls back to a day axis of 29 points and still returns a result.
C11_ProbeFailureGives29 == DayProbeRaised => AxisLength = 29

\* the positions of the four origin pillars, read from the returned base chart
OriginPillars == {LayerIdx(resp.base_chart, pillar) : pillar \in {"year", "month", "day", "hour"}}

\* the branch of aspect slot i: i places after the origin-hour pillar
SlotBranch(i) == (LayerIdx(resp.base_chart, "hour") + i) % 12

FavorableStars == {"TianGui", "TianFu", "TianWen", "TianShou"}
NeutralStars == {"TianQuan", "TianYiArt", "TianYi", "TianJian"}
UnfavorableStars == {"TianGu", "TianPo", "TianRen", "TianE"}

tier(star) ==
    CASE star \in FavorableStars -> 30
      [] star \in NeutralStars -> 10
      [] star \in UnfavorableStars -> -20

\* the modifier the spec gives aspect slot i
SlotModifier(i) ==
    tier(STARS_INFO[ZhiAt(SlotBranch(i))].name)
        + (IF SlotBranch(i) \in OriginPillars THEN 10 ELSE 0)

\* every axis point emits the modifier for aspect slot i
EmitsAlongAxis(i, modifier) ==
    \A p \in 1..AxisLength : resp.trend_data.points[p].aspects[i + 1].adjustment = modifier

\* C13: for every aspect slot i (0..11) and every axis point the emitted modifier is
\* tier(star of branch (originHour + i) mod 12) plus 10 if that branch is one of the four
\* origin pillars, with tiers +30 / +10 / -20; it does not vary along the axis, and
\* slot 0 always includes the +10 rooted bonus.
C13_ModifierIsTierPlusRooted ==
    Answered =>
        /\ \A i \in 0..11 : EmitsAlongAxis(i, SlotModifier(i))
        /\ EmitsAlongAxis(0, tier(resp.base_chart.hour.name) + 10)

\* an answered request whose slots show the three tiers, with and without the bonus,
\* while slot 0 is scored under the host/guest substitution
C13_Witness ==
    /\ Answered
    /\ \E i \in 1..11 : SlotBranch(i) \in OriginPillars /\ SlotModifier(i) = 20
    /\ \E i \in 1..11 : SlotBranch(i) \notin OriginPillars /\ SlotModifier(i) = 30
    /\ \E i \in 1..11 : SlotBranch(i) \notin OriginPillars /\ SlotModifier(i) = -20
    /\ resp.trend_data.points[AxisLength].aspects[1].adjustment = 40

\* the subject and the target of the request being served
RequestSubject ==
    OnePalmSystem(req.gender, solar_to_one_palm_lunar(req.solar_date, cal.birth).year_zhi,
                  solar_to_one_palm_lunar(req.solar_date, cal.birth).month,
                  solar_to_one_palm_lunar(req.solar_date, cal.birth).day, req.hour)

RequestTarget ==
    parse_target_date(req.target_scope, req.target_calendar, req.target_year,
                      req.target_month, req.target_day, req.target_hour, cal.target)

\* the target with only the unit of the scope replaced by v
Replaced(target, scope, v) ==
    CASE scope = "month" -> [target EXCEPT !.lunar_month = v]
      [] scope = "day" -> [target EXCEPT !.lunar_day = v]
      [] scope = "hour" -> [target EXCEPT !.hour_zhi = v]

\* the star of the layer of the scope when the chain is computed again for value v, the
\* layers above it being those of the target; for scope=year the decade stage is the
\* target's and the year branch is that of year v
Recomputed(subject, target, scope, v) ==
    IF scope = "year"
    THEN StarEntry(advance(LayerIdx(resp.hierarchy, "big_luck"), (v - 4) % 12,
                           subject.direction)).name
    ELSE calculate_hierarchy(subject, resp.age, Replaced(target, scope, v), scope)[scope].name

PointsAgree(subject, target, scope) ==
    \A p \in 1..AxisLength :
        /\ scope = "year" => resp.trend_data.points[p].label = target.lunar_year + (p - 7)
        /\ resp.trend_data.points[p].renhe.star
              = Recomputed(subject, target, scope, resp.trend_data.points[p].label)

\* C15: offsetting from the computed hierarchy agrees with computing the chain again with
\* the parent layer held fixed: for scope=month, day and hour the time-layer of the axis
\* point with value v is the month/day/hour layer calculate_hierarchy returns for the same
\* subject and age when only the target's lunar month / lunar day / hour branch is
\* replaced by v; for scope=year the point at offset k (-6..+6) is
\* advance(decade stage of the target, ((targetLunarYear + k) - 4) mod 12, direction).
C15_OffsetsAgreeWithChain ==
    Answered => PointsAgree(RequestSubject, RequestTarget, req.target_scope)

\* a backward subject's day axis of 30 points whose last point is the chain's day layer
\* for day 30 and differs from the day layer of the target itself
C15_Witness ==
    /\ Answered /\ req.target_scope = "day" /\ req.gender = 0 /\ AxisLength = 30
    /\ resp.trend_data.points[30].renhe.star
          = Recomputed(RequestSubject, RequestTarget, "day", 30)
    /\ resp.trend_data.points[30].renhe.star # resp.hierarchy.day.name

\* C16: in the result of calculate the static aspects list is anchored at the hierarchy's
\* year-layer position for every scope: entry i has branch (yearLayer + i) mod 12 and the
\* 12 entries cover 12 distinct branches; slot 0 is scored as relation(host = parent layer
\* of the scope, guest = year-layer element), so for scope=month slot 0 is always peer.
C16_AspectsAnchoredAtYearLayer ==
    Answered =>
        /\ Len(resp.aspects) = 12
        /\ \A i \in 0..11 :
              resp.aspects[i + 1].zhi = ZhiAt((LayerIdx(resp.hierarchy, "year") + i) % 12)
        /\ Cardinality({resp.aspects[k].zhi : k \in 1..12}) = 12
        /\ resp.aspects[1].relation
              = relation(resp.hierarchy[ParentLayer(req.target_scope)].element,
                         resp.hierarchy.year.element).type
        /\ req.target_scope = "month" => resp.aspects[1].relation = "bi_wang"

\* a scope=month answer whose month layer is another branch than its year layer, so
\* that the anchor of the list is told apart from the layer of the scope
C16_Witness ==
    /\ Answered /\ req.target_scope = "month"
    /\ resp.hierarchy.month.zhi # resp.hierarchy.year.zhi
    /\ resp.aspects[1].zhi = resp.hierarchy.year.zhi
    /\ resp.aspects[1].relation = "bi_wang"

\* worker w holds the answer to its request
AnsweredAt(w) == workers[w].resp # None

AsBranch(label) == IF label \in ZhiSet THEN label ELSE ZhiAt(0)

WithBranches(r) == [r EXCEPT !.hour = AsBranch(@), !.target_hour = AsBranch(@)]

\* C14: index_of gives position 0 for a label that is none of the 12 branches and never
\* raises: the base chart, hierarchy and trend computed with an unknown birth-hour or
\* target-hour branch are those computed with branch 0, and the calculation completes.
C14_UnknownBranchIsBranchZero ==
    /\ \A w \in Workers :
          AnsweredAt(w) =>
             /\ workers[w].resp.status = 200
             /\ workers[w].req.hour \notin ZhiSet
                   => workers[w].resp.base_chart.hour = workers[w].resp.base_chart.day
             /\ workers[w].req.target_hour \notin ZhiSet
                   => /\ workers[w].resp.hierarchy.hour = workers[w].resp.hierarchy.day
                      /\ workers[w].req.target_scope = "hour"
                            => workers[w].resp.trend_data.target_index = 0
    /\ \A w1, w2 \in Workers :
          (/\ AnsweredAt(w1) /\ AnsweredAt(w2)
           /\ WithBranches(workers[w1].req) = WithBranches(workers[w2].req)
           /\ workers[w1].cal = workers[w2].cal)
              => /\ workers[w1].resp.base_chart = workers[w2].resp.base_chart
                 /\ workers[w1].resp.hierarchy = workers[w2].resp.hierarchy
                 /\ workers[w1].resp.trend_data = workers[w2].resp.trend_data

\* one worker answered a request with unknown birth-hour and target-hour labels, the
\* other the same request with branch 0 for both, and their hour axes agree
C14_Witness ==
    /\ AnsweredAt(1) /\ AnsweredAt(2)
    /\ workers[1].req.hour \notin ZhiSet /\ workers[1].req.target_hour \notin ZhiSet
    /\ workers[2].req = WithBranches(workers[1].req)
    /\ workers[1].req.target_scope = "hour"
    /\ workers[1].resp.status = 200
    /\ workers[1].resp.trend_data = workers[2].resp.trend_data

=============================================================================
